---- MODULE Spec2Model ----
(***************************************************************************)
(* The path router of retes (src/unnamed/part_004, the module imported as  *)
(* './router'): a compressed trie with static, parameter and wildcard      *)
(* nodes, built by Router.add / Router.insert and searched by Router.find. *)
(*                                                                         *)
(* Strings are sequences of one-character strings; character codes are the *)
(* characters themselves; the NaN that charCodeAt gives past the end of a  *)
(* string is the value NaN, which is equal to no label.  The node objects  *)
(* live in the sequence tree, a node is named by its index and the root is *)
(* node 1.                                                                 *)
(***************************************************************************)
EXTENDS Integers, Sequences, FiniteSets, TLC

VARIABLES tree, regs, pc, query, result, called

(* the graceful-stop helper and the sockets of its server *)
VARIABLES terminating, reqCountPerSocket, hasRepliedClosedConnectionForSocket,
          sockets, pending, timers, endCalls, requested, trackedAtStop

stopVars == <<terminating, reqCountPerSocket, hasRepliedClosedConnectionForSocket,
              sockets, pending, timers, endCalls, requested, trackedAtStop>>

routerVars == <<tree, regs, pc, query, result, called>>

vars == <<routerVars, stopVars>>

----------------------------------------------------------------------------
(* Bounds of the model *)

MaxAdds == 2

MaxPathLen == 4

MaxAddsIso == 3

(* registrations and path length where the orders of registration are     *)
(* compared                                                                *)
MaxAddsOrder == 2

MaxPathLenOrder == 3

(* the sockets the server accepts *)
MaxSockets == 2
(* the requests of the server whose responses have not finished *)
MaxPending == 2

----------------------------------------------------------------------------
(* Char *)

SKIND == 0

PKIND == 1

AKIND == 2

STAR == "*"

SLASH == "/"

COLON == ":"

NaN == "NaN"

undefined == 0

UndefinedValue == <<"undefined">>

Methods == {"GET", "POST"}

----------------------------------------------------------------------------
(* String primitives of the language, as the code uses them *)

Min(a, b) == IF a < b THEN a ELSE b

Max(a, b) == IF a < b THEN b ELSE a

Clamp(s, i) == Max(0, Min(i, Len(s)))

charCodeAt(s, i) == IF i >= 0 /\ i < Len(s) THEN s[i + 1] ELSE NaN

substring(s, a, b) ==
  LET lo == Min(Clamp(s, a), Clamp(s, b))
      hi == Max(Clamp(s, a), Clamp(s, b))
  IN  SubSeq(s, lo + 1, hi)

substringFrom(s, a) == substring(s, a, Len(s))

sameCode(c, d) == c # NaN /\ d # NaN /\ c = d

(* the comparison loop stopping one character early *)
commonLengthShort(path, prefix) ==
  LET m == Min(Len(path), Len(prefix))
      same == {k \in 0..m : \A i \in 0..(k - 1) : sameCode(charCodeAt(path, i), charCodeAt(prefix, i))}
  IN  Max(0, (CHOOSE k \in same : \A j \in same : j <= k) - 1)

commonLength(path, prefix) ==
  LET m == Min(Len(path), Len(prefix))
  IN  CHOOSE len \in 0..m :
        /\ \A i \in 0..(len - 1) : charCodeAt(path, i) = charCodeAt(prefix, i)
        /\ (len = m \/ charCodeAt(path, len) # charCodeAt(prefix, len))

----------------------------------------------------------------------------
(* class Node *)

NoEntry == [set |-> FALSE, handler |-> undefined, named |-> FALSE, names |-> <<>>]

EmptyMap == [m \in Methods |-> NoEntry]

(* the constructor ignoring its kind argument *)
NodeStatic(prefix, children, kind, map) ==
  [label |-> charCodeAt(prefix, 0), prefix |-> prefix,
   children |-> children, kind |-> SKIND, map |-> map]

Node(prefix, children, kind, map) ==
  [label |-> charCodeAt(prefix, 0), prefix |-> prefix,
   children |-> children, kind |-> kind, map |-> map]

(* findChild without the comparison of labels *)
findChildAnyLabel(nodes, id, label, kind) ==
  LET cs == nodes[id].children
      hits == {i \in 1..Len(cs) : kind = nodes[cs[i]].kind}
  IN  IF hits = {} THEN 0 ELSE cs[CHOOSE i \in hits : \A k \in hits : i <= k]

(* findChild without the comparison of kinds *)
findChildAnyKind(nodes, id, label, kind) ==
  LET cs == nodes[id].children
      hits == {i \in 1..Len(cs) : sameCode(label, nodes[cs[i]].label)}
  IN  IF hits = {} THEN 0 ELSE cs[CHOOSE i \in hits : \A k \in hits : i <= k]

(* findChild whose loop gives up after the first child *)
findChildFirst(nodes, id, label, kind) ==
  LET cs == nodes[id].children
  IN  IF cs # <<>> /\ sameCode(label, nodes[cs[1]].label) /\ kind = nodes[cs[1]].kind
      THEN cs[1] ELSE 0

findChild(nodes, id, label, kind) ==
  LET cs == nodes[id].children
      hits == {i \in 1..Len(cs) : sameCode(label, nodes[cs[i]].label) /\ kind = nodes[cs[i]].kind}
  IN  IF hits = {} THEN 0 ELSE cs[CHOOSE i \in hits : \A k \in hits : i <= k]

(* findChildByLabel that never finds a child *)
findChildByLabelNone(nodes, id, label) == 0

findChildByLabel(nodes, id, label) ==
  LET cs == nodes[id].children
      hits == {i \in 1..Len(cs) : sameCode(label, nodes[cs[i]].label)}
  IN  IF hits = {} THEN 0 ELSE cs[CHOOSE i \in hits : \A k \in hits : i <= k]

(* findChildByKind whose loop gives up after the first child *)
findChildByKindFirst(nodes, id, kind) ==
  LET cs == nodes[id].children
  IN  IF cs # <<>> /\ kind = nodes[cs[1]].kind THEN cs[1] ELSE 0

(* findChildByKind that takes the first child that is not Static,          *)
(* whichever kind was asked for                                            *)
findChildByKindDynamic(nodes, id, kind) ==
  LET cs == nodes[id].children
      hits == {i \in 1..Len(cs) : nodes[cs[i]].kind # SKIND}
  IN  IF hits = {} THEN 0 ELSE cs[CHOOSE i \in hits : \A k \in hits : i <= k]

findChildByKind(nodes, id, kind) ==
  LET cs == nodes[id].children
      hits == {i \in 1..Len(cs) : kind = nodes[cs[i]].kind}
  IN  IF hits = {} THEN 0 ELSE cs[CHOOSE i \in hits : \A k \in hits : i <= k]

(* addHandler that stores no names *)
addHandlerNoNames(node, method, handler, named, names) ==
  [node EXCEPT !.map[method] =
     [set |-> TRUE, handler |-> handler, named |-> named, names |-> <<>>]]

(* addHandler that keeps the entry a method already has *)
addHandlerKeepFirst(node, method, handler, named, names) ==
  IF node.map[method].set THEN node
  ELSE [node EXCEPT !.map[method] =
          [set |-> TRUE, handler |-> handler, named |-> named, names |-> names]]

addHandler(node, method, handler, named, names) ==
  [node EXCEPT !.map[method] =
     [set |-> TRUE, handler |-> handler, named |-> named, names |-> names]]

(* findHandler that answers with the entry of any method that has one *)
findHandlerAnyMethod(node, method) ==
  IF node.map[method].set THEN node.map[method]
  ELSE IF \E m \in Methods : node.map[m].set
       THEN node.map[CHOOSE m \in Methods : node.map[m].set]
       ELSE node.map[method]

findHandler(node, method) == node.map[method]

----------------------------------------------------------------------------
(* graceful-stop.ts: serverStoppingHelper.  A socket is "none" before its  *)
(* connection event, then "open", "ended" once socket.end() was called on  *)
(* it, and "closed" after its close event.  reqCountPerSocket holds Absent *)
(* for a socket that is not a key of the Map and NaNCount for the value    *)
(* NaN.  pending[s] holds one entry per response of s that has not         *)
(* finished: whether the helper set 'connection: close' on it.  endCalls   *)
(* is the set of sockets the last handler called end() on, requested the   *)
(* request event the last handler was called with, if it was trackRequests,*)
(* and trackedAtStop the keys of the Map when stoppingFunction was called; *)
(* none of the three is read by the helper.                                *)
Sockets == 1..MaxSockets

Absent == -1

NoRequest == [socket |-> 0, headersSent |-> FALSE]

NaNCount == -2

InitStop ==
  /\ terminating = FALSE
  /\ reqCountPerSocket = [s \in Sockets |-> Absent]
  /\ hasRepliedClosedConnectionForSocket = {}
  /\ sockets = [s \in Sockets |-> "none"]
  /\ pending = [s \in Sockets |-> <<>>]
  /\ timers = [tryEndIdle |-> "unset", forcedStop |-> "unset"]
  /\ endCalls = {}
  /\ requested = NoRequest
  /\ trackedAtStop = {}

(* socket.end() on every socket of a set *)
end(socks, set) ==
  [s \in Sockets |-> IF s \in set /\ socks[s] = "open" THEN "ended" ELSE socks[s]]

(* the connection event of a listening server; the sockets are numbered   *)
(* in the order of their connection events                                 *)
trackConnections(s) ==
  /\ ~terminating
  /\ sockets[s] = "none"
  /\ \A t \in Sockets : t < s => sockets[t] # "none"
  /\ sockets' = [sockets EXCEPT ![s] = "open"]
  /\ reqCountPerSocket' = [reqCountPerSocket EXCEPT ![s] = 0]
  /\ endCalls' = {}
  /\ requested' = NoRequest
  /\ UNCHANGED <<terminating, hasRepliedClosedConnectionForSocket, pending, timers,
                 trackedAtStop>>

(* the close event of a socket, heard by the listener of trackConnections *)
socketClose(s) ==
  /\ sockets[s] \in {"open", "ended"}
  /\ sockets' = [sockets EXCEPT ![s] = "closed"]
  /\ reqCountPerSocket' = [reqCountPerSocket EXCEPT ![s] = Absent]
  /\ endCalls' = {}
  /\ requested' = NoRequest
  /\ UNCHANGED <<terminating, hasRepliedClosedConnectionForSocket, pending, timers,
                 trackedAtStop>>

(* the number of responses of the sockets 1..n that have not finished *)
RECURSIVE unfinished(_, _)
unfinished(p, n) == IF n = 0 THEN 0 ELSE Len(p[n]) + unfinished(p, n - 1)

(* x + d in JavaScript for a value read from the Map *)
plus(x, d) == IF x = Absent \/ x = NaNCount THEN NaNCount ELSE x + d

(* trackRequests that sets the header before the server is terminating *)
trackRequestsEager(s, headersSent) ==
  LET currentCount == IF reqCountPerSocket[s] = Absent THEN 0 ELSE reqCountPerSocket[s]
      close == ~headersSent
  IN  /\ sockets[s] = "open"
      /\ unfinished(pending, MaxSockets) < MaxPending
      /\ reqCountPerSocket' = [reqCountPerSocket EXCEPT ![s] = plus(currentCount, 1)]
      /\ hasRepliedClosedConnectionForSocket' =
           IF close THEN hasRepliedClosedConnectionForSocket \cup {s}
           ELSE hasRepliedClosedConnectionForSocket
      /\ pending' = [pending EXCEPT ![s] = Append(@, close)]
      /\ endCalls' = {}
      /\ requested' = [socket |-> s, headersSent |-> headersSent]
      /\ UNCHANGED <<terminating, sockets, timers, trackedAtStop>>

(* the request event *)
trackRequests(s, headersSent) ==
  LET currentCount == IF reqCountPerSocket[s] = Absent THEN 0 ELSE reqCountPerSocket[s]
      close == terminating /\ ~headersSent
  IN  /\ sockets[s] = "open"
      /\ unfinished(pending, MaxSockets) < MaxPending
      /\ reqCountPerSocket' = [reqCountPerSocket EXCEPT ![s] = plus(currentCount, 1)]
      /\ hasRepliedClosedConnectionForSocket' =
           IF close THEN hasRepliedClosedConnectionForSocket \cup {s}
           ELSE hasRepliedClosedConnectionForSocket
      /\ pending' = [pending EXCEPT ![s] = Append(@, close)]
      /\ endCalls' = {}
      /\ requested' = [socket |-> s, headersSent |-> headersSent]
      /\ UNCHANGED <<terminating, sockets, timers, trackedAtStop>>

(* checkAndCloseConnection without the test of the count *)
checkAndCloseConnectionAnyCount(s) ==
  LET socketPendingRequests == plus(reqCountPerSocket[s], -1)
      hasSuggestedClosingConnection == s \in hasRepliedClosedConnectionForSocket
      ends == terminating /\ hasSuggestedClosingConnection
  IN  /\ pending[s] # <<>>
      /\ pending' = [pending EXCEPT ![s] = Tail(@)]
      /\ reqCountPerSocket' = [reqCountPerSocket EXCEPT ![s] = socketPendingRequests]
      /\ endCalls' = IF ends THEN {s} ELSE {}
      /\ sockets' = end(sockets, endCalls')
      /\ requested' = NoRequest
      /\ UNCHANGED <<terminating, hasRepliedClosedConnectionForSocket, timers, trackedAtStop>>

(* the finish event of the oldest unfinished response of a socket *)
checkAndCloseConnection(s) ==
  LET socketPendingRequests == plus(reqCountPerSocket[s], -1)
      hasSuggestedClosingConnection == s \in hasRepliedClosedConnectionForSocket
      ends == terminating /\ socketPendingRequests = 0 /\ hasSuggestedClosingConnection
  IN  /\ pending[s] # <<>>
      /\ pending' = [pending EXCEPT ![s] = Tail(@)]
      /\ reqCountPerSocket' = [reqCountPerSocket EXCEPT ![s] = socketPendingRequests]
      /\ endCalls' = IF ends THEN {s} ELSE {}
      /\ sockets' = end(sockets, endCalls')
      /\ requested' = NoRequest
      /\ UNCHANGED <<terminating, hasRepliedClosedConnectionForSocket, timers, trackedAtStop>>

(* endAllConnections that never forces *)
endAllConnectionsIdleOnly(force) ==
  {s \in Sockets : reqCountPerSocket[s] = 0}

(* the sockets endAllConnections calls end() on *)
endAllConnections(force) ==
  {s \in Sockets : reqCountPerSocket[s] # Absent /\ (force \/ reqCountPerSocket[s] = 0)}

(* stoppingFunction is called once: it is the stop function of the server *)
stoppingFunction ==
  /\ ~terminating
  /\ terminating' = TRUE
  /\ timers' = [tryEndIdle |-> "armed", forcedStop |-> "armed"]
  /\ trackedAtStop' = {s \in Sockets : reqCountPerSocket[s] # Absent}
  /\ endCalls' = {}
  /\ requested' = NoRequest
  /\ UNCHANGED <<reqCountPerSocket, hasRepliedClosedConnectionForSocket, sockets, pending>>

(* the timer of timeoutToTryEndIdle = 15000 *)
tryEndIdle ==
  /\ timers.tryEndIdle = "armed"
  /\ timers' = [timers EXCEPT !.tryEndIdle = "fired"]
  /\ endCalls' = endAllConnections(FALSE)
  /\ sockets' = end(sockets, endCalls')
  /\ requested' = NoRequest
  /\ UNCHANGED <<terminating, reqCountPerSocket, hasRepliedClosedConnectionForSocket,
                 pending, trackedAtStop>>

(* the timer of forcedStopTimeout = 30000, set after the one of 15000 *)
forcedStop ==
  /\ timers.forcedStop = "armed"
  /\ timers.tryEndIdle = "fired"
  /\ timers' = [timers EXCEPT !.forcedStop = "fired"]
  /\ endCalls' = endAllConnections(TRUE)
  /\ sockets' = end(sockets, endCalls')
  /\ requested' = NoRequest
  /\ UNCHANGED <<terminating, reqCountPerSocket, hasRepliedClosedConnectionForSocket,
                 pending, trackedAtStop>>

----------------------------------------------------------------------------
(* class Router: constructor, insert, add *)

NewRouter == <<Node(<<SLASH>>, <<>>, SKIND, EmptyMap)>>

RECURSIVE insertAt(_, _, _, _, _, _, _, _)
insertAt(nodes, id, method, path, kind, named, names, handler) ==
  LET node == nodes[id]
      prefix == node.prefix
      pathLength == Len(path)
      prefixLength == Len(prefix)
      len == commonLength(path, prefix)
      nid == Len(nodes) + 1
  IN  IF len < prefixLength THEN
        LET n == Node(substringFrom(prefix, len), node.children, node.kind, node.map)
            cut == [label |-> charCodeAt(prefix, 0), prefix |-> substring(prefix, 0, len),
                    children |-> <<nid>>, kind |-> SKIND, map |-> EmptyMap]
        IN  IF len = pathLength THEN
              Append([nodes EXCEPT ![id] =
                        [addHandler(cut, method, handler, named, names) EXCEPT !.kind = kind]],
                     n)
            ELSE
              LET n2 == addHandler(Node(substringFrom(path, len), <<>>, kind, EmptyMap),
                                   method, handler, named, names)
              IN  Append(Append([nodes EXCEPT ![id] =
                                   [cut EXCEPT !.children = <<nid, nid + 1>>]], n), n2)
      ELSE IF len < pathLength THEN
        LET rest == substringFrom(path, len)
            child == findChildByLabel(nodes, id, charCodeAt(rest, 0))
        IN  IF child # 0 THEN
              insertAt(nodes, child, method, rest, kind, named, names, handler)
            ELSE
              Append([nodes EXCEPT ![id].children = Append(@, nid)],
                     addHandler(Node(rest, <<>>, kind, EmptyMap),
                                method, handler, named, names))
      ELSE IF handler # undefined THEN
        [nodes EXCEPT ![id] = addHandler(node, method, handler, named, names)]
      ELSE nodes

insert(nodes, method, path, kind, named, names, handler) ==
  insertAt(nodes, 1, method, path, kind, named, names, handler)

(* The scan of Router.add: the insert calls it makes, in order, and the     *)
(* final content of the params array.  Every call that passes params passes *)
(* the same array object, so what the nodes hold once add has returned is   *)
(* the final content.                                                       *)
Call(path, kind, named, withHandler) ==
  [path |-> path, kind |-> kind, named |-> named, withHandler |-> withHandler]

RECURSIVE nameEnd(_, _, _)
nameEnd(path, i, pathLength) ==
  IF i < pathLength /\ charCodeAt(path, i) # SLASH
  THEN nameEnd(path, i + 1, pathLength)
  ELSE i

RECURSIVE addScan(_, _, _, _, _)
addScan(path, i, pathLength, params, calls) ==
  IF ~(i < pathLength) THEN
    [params |-> params, calls |-> Append(calls, Call(path, SKIND, TRUE, TRUE))]
  ELSE
    LET char == charCodeAt(path, i) IN
    IF char = COLON THEN
      LET j == i + 1
          c1 == Append(calls, Call(substring(path, 0, i), SKIND, FALSE, FALSE))
          i2 == nameEnd(path, i, pathLength)
          params2 == Append(params, substring(path, j, i2))
          path2 == substring(path, 0, j) \o substringFrom(path, i2)
      IN  IF j = pathLength THEN
            [params |-> params2,
             calls |-> Append(c1, Call(substring(path2, 0, j), PKIND, TRUE, TRUE))]
          ELSE
            addScan(path2, j + 1, pathLength, params2,
                    Append(c1, Call(substring(path2, 0, j), PKIND, TRUE, FALSE)))
    ELSE IF char = STAR THEN
      [params |-> Append(params, <<STAR>>),
       calls |-> calls \o <<Call(substring(path, 0, i), SKIND, FALSE, FALSE),
                            Call(substring(path, 0, pathLength), AKIND, TRUE, TRUE)>>]
    ELSE addScan(path, i + 1, pathLength, params, calls)

RECURSIVE applyCalls(_, _, _, _, _)
applyCalls(nodes, method, calls, params, handler) ==
  IF calls = <<>> THEN nodes
  ELSE LET c == Head(calls)
       IN  applyCalls(insert(nodes, method, c.path, c.kind, c.named,
                             IF c.named THEN params ELSE <<>>,
                             IF c.withHandler THEN handler ELSE undefined),
                      method, Tail(calls), params, handler)

(* add that makes the node before a trailing '*' a terminal of the pattern *)
(* as well                                                                 *)
addWildcardPrefix(nodes, method, path, handler) ==
  LET s == addScan(path, 0, Len(path), <<>>, <<>>)
      t == applyCalls(nodes, method, s.calls, s.params, handler)
  IN  IF path # <<>> /\ path[Len(path)] = STAR
      THEN insert(t, method, SubSeq(path, 1, Len(path) - 1), SKIND, TRUE, s.params, handler)
      ELSE t

add(nodes, method, path, handler) ==
  LET s == addScan(path, 0, Len(path), <<>>, <<>>)
  IN  applyCalls(nodes, method, s.calls, s.params, handler)

----------------------------------------------------------------------------
(* Router.find: the result tuple [handler, values] is one object shared by  *)
(* all the recursive calls; here each call receives it and returns it.      *)
(* visited is the list of the nodes the calls were made on, in call order;  *)
(* it is not read by the search.                                            *)

Raw(v) == [tag |-> "raw", name |-> UndefinedValue, value |-> v]

Hole == [tag |-> "hole", name |-> UndefinedValue, value |-> UndefinedValue]

Pair(name, entry) ==
  [tag |-> "pair", name |-> name,
   value |-> IF entry.tag = "raw" THEN entry.value ELSE UndefinedValue]

(* values.push(v) in place of values[n] = v *)
setAtPush(values, n, v) == Append(values, v)

(* values[n] = v, for an array index n counted from 0 *)
setAt(values, n, v) ==
  [i \in 1..Max(Len(values), n + 1) |->
     IF i = n + 1 THEN v ELSE IF i <= Len(values) THEN values[i] ELSE Hole]

pop(values) == IF values = <<>> THEN values ELSE SubSeq(values, 1, Len(values) - 1)

(* the names taken from the end of the list *)
zipNamesReversed(names, values) ==
  [i \in 1..Max(Len(values), Len(names)) |->
     IF i <= Len(names)
     THEN Pair(names[Len(names) + 1 - i], IF i <= Len(values) THEN values[i] ELSE Hole)
     ELSE values[i]]

zipNames(names, values) ==
  [i \in 1..Max(Len(values), Len(names)) |->
     IF i <= Len(names)
     THEN Pair(names[i], IF i <= Len(values) THEN values[i] ELSE Hole)
     ELSE values[i]]

NewResult == [handler |-> undefined, values |-> <<>>, visited |-> <<>>]

(* the scan for the end of the segment that does not stop at '/' *)
segmentEndGreedy(path) == Len(path)

segmentEnd(path) ==
  CHOOSE i \in 0..Len(path) :
    /\ \A k \in 0..(i - 1) : charCodeAt(path, k) # SLASH
    /\ (i = Len(path) \/ charCodeAt(path, i) = SLASH)

RECURSIVE findAt(_, _, _, _, _, _)
findAt(nodes, method, path0, cn, n, result0) ==
  LET pathLength == Len(path0)
      prefix == nodes[cn].prefix
      prefixLength == Len(prefix)
      res == [result0 EXCEPT !.visited = Append(@, cn)]
  IN  IF pathLength = 0 \/ path0 = prefix THEN
        LET r == findHandler(nodes[cn], method)
            h == IF r.set THEN r.handler ELSE undefined
        IN  IF h # undefined /\ r.named
            THEN [res EXCEPT !.handler = h, !.values = zipNames(r.names, @)]
            ELSE [res EXCEPT !.handler = h]
      ELSE
        LET l == commonLength(path0, prefix)
            path == IF l = prefixLength THEN substringFrom(path0, l) ELSE path0
            sChild == findChild(nodes, cn, charCodeAt(path, 0), SKIND)
            r1 == IF sChild # 0 THEN findAt(nodes, method, path, sChild, n, res) ELSE res
        IN  IF sChild # 0 /\ r1.handler # undefined THEN r1
            ELSE IF l # prefixLength THEN r1
            ELSE
              LET pChild == findChildByKind(nodes, cn, PKIND)
                  i == segmentEnd(path)
                  r2 == IF pChild # 0
                        THEN findAt(nodes, method, substringFrom(path, i), pChild, n + 1,
                                    [r1 EXCEPT !.values = setAt(@, n, Raw(substring(path, 0, i)))])
                        ELSE r1
              IN  IF pChild # 0 /\ r2.handler # undefined THEN r2
                  ELSE
                    LET r3 == IF pChild # 0 THEN [r2 EXCEPT !.values = pop(@)] ELSE r2
                        aChild == findChildByKind(nodes, cn, AKIND)
                    IN  IF aChild # 0
                        THEN findAt(nodes, method, <<>>, aChild, n,
                                    [r3 EXCEPT !.values = setAt(@, n, Raw(path))])
                        ELSE r3

find(nodes, method, path) == findAt(nodes, method, path, 1, 0, NewResult)

----------------------------------------------------------------------------
(* The routes and requests the model draws from *)

Patterns ==
  { <<"/">>,
    <<"/", "a">>,
    <<"/", "a", "b">>,
    <<"/", ":", "x">>,
    <<"/", ":", "x", "/", "a">>,
    <<"/", ":", "x", "/", ":", "y">>,
    <<"/", "*">>,
    <<"/", "a", "/", "*">> }

PatternsIso ==
  { <<"/", ":", "x">>,
    <<"/", "a", "b">>,
    <<"/", "a", "b", "a">>,
    <<"/", "a">> }

PathChars == {"/", "a", "b"}

RECURSIVE StringsUpTo(_)
StringsUpTo(n) ==
  IF n = 0 THEN {<<>>}
  ELSE LET shorter == StringsUpTo(n - 1)
       IN  shorter \cup {Append(s, c) : s \in {t \in shorter : Len(t) = n - 1}, c \in PathChars}

(* Request paths: every path of at most MaxPathLen characters that starts   *)
(* with '/', the empty string, and some strings that no URL path is: without *)
(* the leading '/', or holding the pattern markers.                          *)
OddPaths ==
  { <<"a">>, <<"a", "b">>, <<"b", "/", "a">>, <<"*">>, <<"/", "*">>, <<"/", ":">>, <<":">> }

Paths == {<<>>} \cup {<<SLASH>> \o s : s \in StringsUpTo(MaxPathLen - 1)} \cup OddPaths

NoQuery == [method |-> "", path |-> <<>>]

(* what the Routing middleware has invoked for the request at hand: the    *)
(* route handler it got from find, and next                                *)
NoCall == [handler |-> undefined, next |-> FALSE]

----------------------------------------------------------------------------
(* The server: routes are registered with router.add (every registration   *)
(* brings its own handler function, named here by the registration's       *)
(* number), requests are resolved with router.find and the result is       *)
(* consumed by the routing middleware before the next call.                *)

Init ==
  /\ tree = NewRouter
  /\ regs = <<>>
  /\ pc = "idle"
  /\ query = NoQuery
  /\ result = NewResult
  /\ called = NoCall
  /\ InitStop

AddRoute(method, path, limit) ==
  /\ pc = "idle"
  /\ Len(regs) < limit
  /\ tree' = add(tree, method, path, Len(regs) + 1)
  /\ regs' = Append(regs, [method |-> method, pattern |-> path, handler |-> Len(regs) + 1])
  /\ UNCHANGED <<pc, query, result, called>>
  /\ UNCHANGED stopVars

(* find storing the captured values in the node's own list of names *)
FindWritingNames(method, path) ==
  /\ pc = "idle"
  /\ result' = find(tree, method, path)
  /\ query' = [method |-> method, path |-> path]
  /\ pc' = "found"
  /\ tree' = IF result'.handler # undefined
             THEN [tree EXCEPT ![result'.visited[Len(result'.visited)]].map[method].names =
                     [i \in 1..Len(@) |-> IF result'.values[i].tag = "pair"
                                          THEN result'.values[i].value ELSE @[i]]]
             ELSE tree
  /\ UNCHANGED <<regs, called>>
  /\ UNCHANGED stopVars

Find(method, path) ==
  /\ pc = "idle"
  /\ result' = find(tree, method, path)
  /\ query' = [method |-> method, path |-> path]
  /\ pc' = "found"
  /\ UNCHANGED <<tree, regs, called>>
  /\ UNCHANGED stopVars

(* Routing that hands every request to next *)
RoutingNextOnly ==
  /\ pc = "found"
  /\ called' = [handler |-> undefined, next |-> TRUE]
  /\ pc' = "called"
  /\ query' = NoQuery
  /\ result' = NewResult
  /\ UNCHANGED <<tree, regs>>
  /\ UNCHANGED stopVars

Routing ==
  /\ pc = "found"
  /\ called' = IF result.handler # undefined
               THEN [handler |-> result.handler, next |-> FALSE]
               ELSE [handler |-> undefined, next |-> TRUE]
  /\ pc' = "called"
  /\ query' = NoQuery
  /\ result' = NewResult
  /\ UNCHANGED <<tree, regs>>
  /\ UNCHANGED stopVars

(* the handler or next has returned, and the middleware returns with it *)
Respond ==
  /\ pc = "called"
  /\ pc' = "idle"
  /\ called' = NoCall
  /\ UNCHANGED <<tree, regs, query, result>>
  /\ UNCHANGED stopVars

(* Routes are registered for either method and requests arrive for one:    *)
(* the router treats all method names alike, so a request for the other    *)
(* method is a request for this one on the trie with the names swapped,    *)
(* which is a trie Next builds as well.                                    *)
RequestMethods == {"GET"}

Next ==
  \/ \E method \in Methods, path \in Patterns : AddRoute(method, path, MaxAdds)
  \/ \E method \in RequestMethods, path \in Paths : Find(method, path)
  \/ Routing
  \/ Respond

Spec == Init /\ [][Next]_vars

NextIso ==
  \/ \E method \in Methods, path \in PatternsIso : AddRoute(method, path, MaxAddsIso)
  \/ \E method \in Methods, path \in Paths : Find(method, path)
  \/ Routing
  \/ Respond

SpecIso == Init /\ [][NextIso]_vars

(* The routes and requests for comparing the orders of registration: the   *)
(* patterns share prefixes, so that their order decides how nodes are      *)
(* split and in which order children are appended.                         *)
PatternsOrder ==
  { <<"/", "a">>,
    <<"/", "a", "b">>,
    <<"/", ":", "x">>,
    <<"/", "*">>,
    <<"/", "a", "/", "*">> }

PathsOrder == {<<>>} \cup {<<SLASH>> \o s : s \in StringsUpTo(MaxPathLenOrder - 1)}

NextOrder ==
  \/ \E method \in Methods, path \in PatternsOrder : AddRoute(method, path, MaxAddsOrder)
  \/ \E method \in RequestMethods, path \in PathsOrder : Find(method, path)
  \/ Routing
  \/ Respond

SpecOrder == Init /\ [][NextOrder]_vars

(* Registrations that the router is not meant to accept: the empty         *)
(* pattern, a pattern without the leading '/', an empty parameter name,    *)
(* and two names for the one parameter position.                           *)
MalformedPatterns ==
  { <<>>,
    <<"a">>,
    <<"/", ":", "/", "a">> }

PatternsErr ==
  MalformedPatterns \cup
  { <<"/", "a">>,
    <<"/", ":", "x">>,
    <<"/", ":", "y">> }

NextErr ==
  \/ \E method \in Methods, path \in PatternsErr : AddRoute(method, path, MaxAdds)
  \/ \E method \in RequestMethods, path \in Paths : Find(method, path)
  \/ Routing
  \/ Respond

SpecErr == Init /\ [][NextErr]_vars

(* the server of the graceful-stop helper: connections, requests, finished *)
(* responses, closed sockets, the call of the stop function and its timers *)
NextStop ==
  \/ \E s \in Sockets : trackConnections(s) /\ UNCHANGED routerVars
  \/ \E s \in Sockets, headersSent \in BOOLEAN :
       trackRequests(s, headersSent) /\ UNCHANGED routerVars
  \/ \E s \in Sockets : checkAndCloseConnection(s) /\ UNCHANGED routerVars
  \/ \E s \in Sockets : socketClose(s) /\ UNCHANGED routerVars
  \/ stoppingFunction /\ UNCHANGED routerVars
  \/ tryEndIdle /\ UNCHANGED routerVars
  \/ forcedStop /\ UNCHANGED routerVars

SpecStop == Init /\ [][NextStop]_vars

(* the two timers fire once they are set *)
SpecStopFair ==
  /\ SpecStop
  /\ WF_vars(tryEndIdle /\ UNCHANGED routerVars)
  /\ WF_vars(forcedStop /\ UNCHANGED routerVars)

----------------------------------------------------------------------------
(* What the specification says a pattern matches (spec sections 3 and 6):   *)
(* static characters literally, ':name' one segment up to the next '/',     *)
(* a trailing '*' the remainder.  With strict, a dynamic token does not      *)
(* match the empty string.  Positions are counted from 1.                   *)

NoMatch == [ok |-> FALSE, bindings |-> <<>>]

Binding(name, value) == [tag |-> "pair", name |-> name, value |-> value]

RECURSIVE TokenEnd(_, _)
TokenEnd(s, i) == IF i <= Len(s) /\ s[i] # SLASH THEN TokenEnd(s, i + 1) ELSE i

RECURSIVE MatchFrom(_, _, _, _, _)
MatchFrom(pattern, i, path, k, strict) ==
  IF i > Len(pattern) THEN [ok |-> k > Len(path), bindings |-> <<>>]
  ELSE IF pattern[i] = COLON THEN
    LET nameStop == TokenEnd(pattern, i + 1)
        valueStop == TokenEnd(path, k)
        rest == MatchFrom(pattern, nameStop, path, valueStop, strict)
    IN  IF (strict /\ valueStop = k) \/ ~rest.ok THEN NoMatch
        ELSE [ok |-> TRUE,
              bindings |-> <<Binding(SubSeq(pattern, i + 1, nameStop - 1),
                                     SubSeq(path, k, valueStop - 1))>> \o rest.bindings]
  ELSE IF pattern[i] = STAR THEN
    IF strict /\ k > Len(path) THEN NoMatch
    ELSE [ok |-> TRUE, bindings |-> <<Binding(<<STAR>>, SubSeq(path, k, Len(path)))>>]
  ELSE IF k <= Len(path) /\ path[k] = pattern[i]
    THEN MatchFrom(pattern, i + 1, path, k + 1, strict)
    ELSE NoMatch

Match(pattern, path) == MatchFrom(pattern, 1, path, 1, FALSE)

MatchStrict(pattern, path) == MatchFrom(pattern, 1, path, 1, TRUE)

IsStatic(s) == \A i \in 1..Len(s) : s[i] # COLON /\ s[i] # STAR

Found == pc = "found"

Registered(method, pattern) ==
  \E i \in 1..Len(regs) : regs[i].method = method /\ regs[i].pattern = pattern

(* the handler of the last registration of (method, pattern) *)
LastHandler(method, pattern) ==
  LET is == {i \in 1..Len(regs) : regs[i].method = method /\ regs[i].pattern = pattern}
  IN  IF is = {} THEN undefined ELSE CHOOSE i \in is : \A k \in is : k <= i

IsChildOf(c, p) == \E k \in 1..Len(tree[p].children) : tree[p].children[k] = c

(* the search left a branch: some call was made on a node that is not a     *)
(* child of the node of the call before it                                  *)
Backtracked ==
  \E k \in 2..Len(result.visited) : ~IsChildOf(result.visited[k], result.visited[k - 1])

----------------------------------------------------------------------------
(* C1. Soundness of find: a defined handler returned by find(m, p) was     *)
(* registered by an add(m, pattern, h) whose pattern matches the whole of  *)
(* p; hence when no pattern registered for m matches p the handler is      *)
(* absent.                                                                 *)
C1_FindSound ==
  Found /\ result.handler # undefined =>
    \E i \in 1..Len(regs) :
      /\ regs[i].handler = result.handler
      /\ regs[i].method = query.method
      /\ Match(regs[i].pattern, query.path).ok

(* C2. Completeness of find: when some pattern registered for m matches p  *)
(* with every dynamic token bound to a non-empty string, find(m, p)        *)
(* returns a defined handler.                                              *)
C2_FindComplete ==
  Found /\ (\E i \in 1..Len(regs) :
              /\ regs[i].method = query.method
              /\ MatchStrict(regs[i].pattern, query.path).ok)
    => result.handler # undefined

(* a match that was reached after the search had left another branch *)
C2_Witness ==
  /\ Found
  /\ \E i \in 1..Len(regs) :
       regs[i].method = query.method /\ MatchStrict(regs[i].pattern, query.path).ok
  /\ result.handler # undefined
  /\ Backtracked

(* C3. Static precedence: looking up an all-static pattern registered for  *)
(* m returns the handler registered for it, with no bindings, whatever     *)
(* else is registered.                                                     *)
C3_StaticPrecedence ==
  Found /\ IsStatic(query.path) /\ Registered(query.method, query.path) =>
    /\ result.handler = LastHandler(query.method, query.path)
    /\ result.values = <<>>

(* the static pattern was looked up while a dynamic pattern registered for *)
(* the same method matches the same path                                   *)
C3_Witness ==
  /\ Found
  /\ IsStatic(query.path)
  /\ Registered(query.method, query.path)
  /\ \E i \in 1..Len(regs) :
       /\ regs[i].method = query.method
       /\ ~IsStatic(regs[i].pattern)
       /\ MatchStrict(regs[i].pattern, query.path).ok
  /\ result.handler = LastHandler(query.method, query.path)

(* C4. Ordered parameter bindings: when find returns the handler of a      *)
(* pattern that matches the path, the bindings are exactly the pattern's   *)
(* dynamic tokens in left-to-right order, each paired with the part of the *)
(* path at its position.                                                   *)
C4_OrderedBindings ==
  Found /\ result.handler # undefined =>
    \A i \in 1..Len(regs) :
      /\ regs[i].handler = result.handler
      /\ regs[i].method = query.method
      /\ Match(regs[i].pattern, query.path).ok
      => result.values = Match(regs[i].pattern, query.path).bindings

(* a match of a pattern with two dynamic tokens, bound to different values *)
C4_Witness ==
  /\ Found
  /\ result.handler # undefined
  /\ Len(result.values) = 2
  /\ result.values[1].tag = "pair" /\ result.values[2].tag = "pair"
  /\ result.values[1].name # result.values[2].name
  /\ result.values[1].value # result.values[2].value
  /\ regs[result.handler].method = query.method
  /\ Match(regs[result.handler].pattern, query.path).ok

----------------------------------------------------------------------------
(* a pattern that ends in '*', registered for the queried method and not   *)
(* registered again later, matching the queried path with a non-empty      *)
(* remainder                                                               *)
WildcardLookup(i) ==
  /\ regs[i].method = query.method
  /\ regs[i].pattern[Len(regs[i].pattern)] = STAR
  /\ LastHandler(regs[i].method, regs[i].pattern) = regs[i].handler
  /\ MatchStrict(regs[i].pattern, query.path).ok

LastOf(seq) == seq[Len(seq)]

Remainder(i) == LastOf(MatchStrict(regs[i].pattern, query.path).bindings)

(* C5, as claimed. Wildcard capture: looking up the part before a          *)
(* registered '*' followed by a non-empty remainder r returns that         *)
(* pattern's handler, and the last binding is ('*', r).                    *)
C5_WildcardCaptureAsClaimed ==
  Found =>
    \A i \in 1..Len(regs) :
      WildcardLookup(i) =>
        /\ result.handler = regs[i].handler
        /\ result.values # <<>>
        /\ LastOf(result.values) = Remainder(i)

(* C5, amended. Such a lookup returns a defined handler; it is that        *)
(* pattern's handler whenever no other pattern is registered for the       *)
(* method; and whenever it is that pattern's handler, the last binding is  *)
(* ('*', r) with r the whole remainder, slashes included.                  *)
C5_WildcardCapture ==
  Found =>
    \A i \in 1..Len(regs) :
      WildcardLookup(i) =>
        /\ result.handler # undefined
        /\ (\A k \in 1..Len(regs) :
              regs[k].method = query.method => regs[k].pattern = regs[i].pattern)
           => result.handler = regs[i].handler
        /\ result.handler = regs[i].handler =>
             result.values # <<>> /\ LastOf(result.values) = Remainder(i)

(* the wildcard's handler was returned with a remainder that holds a '/' *)
C5_Witness ==
  /\ Found
  /\ \E i \in 1..Len(regs) :
       /\ WildcardLookup(i)
       /\ result.handler = regs[i].handler
       /\ \E k \in 1..Len(Remainder(i).value) : Remainder(i).value[k] = SLASH

(* C6. Method isolation: when the path matches a pattern registered only   *)
(* for other methods and no pattern registered for m matches it,           *)
(* find(m, p) returns an absent handler.                                   *)
C6_MethodIsolation ==
  /\ Found
  /\ \E i \in 1..Len(regs) :
       /\ regs[i].method # query.method
       /\ ~Registered(query.method, regs[i].pattern)
       /\ Match(regs[i].pattern, query.path).ok
  /\ \A i \in 1..Len(regs) :
       regs[i].method = query.method => ~Match(regs[i].pattern, query.path).ok
  => result.handler = undefined

----------------------------------------------------------------------------
(* The case of C7: the router holds exactly two registrations, a and b,    *)
(* both for the queried method; pattern a is pre ':x' suf1, pattern b is   *)
(* pre lit suf2 with suf1 # suf2, and the path is pre lit suf1.  preLen    *)
(* and litLen are the lengths of pre and lit, both at most the length of   *)
(* the path.                                                               *)
C7_Pre(a, preLen) == SubSeq(regs[a].pattern, 1, preLen)

C7_NameStop(a, preLen) == TokenEnd(regs[a].pattern, preLen + 2)

C7_Suf1(a, preLen) ==
  SubSeq(regs[a].pattern, C7_NameStop(a, preLen), Len(regs[a].pattern))

C7_Lit(b, preLen, litLen) == SubSeq(regs[b].pattern, preLen + 1, preLen + litLen)

C7_Case(a, b, preLen, litLen) ==
  /\ a # b
  /\ preLen + 1 <= Len(regs[a].pattern)
  /\ regs[a].pattern[preLen + 1] = COLON
  /\ litLen >= 1
  /\ preLen + litLen <= Len(regs[b].pattern)
  /\ SubSeq(regs[b].pattern, 1, preLen) = C7_Pre(a, preLen)
  /\ \A k \in 1..litLen : C7_Lit(b, preLen, litLen)[k] \notin {SLASH, COLON, STAR}
  /\ C7_Suf1(a, preLen) # SubSeq(regs[b].pattern, preLen + litLen + 1, Len(regs[b].pattern))
  /\ query.path = C7_Pre(a, preLen) \o C7_Lit(b, preLen, litLen) \o C7_Suf1(a, preLen)

(* exactly two registrations, both for the queried method *)
C7_Router ==
  /\ Found
  /\ Len(regs) = 2
  /\ regs[1].method = query.method
  /\ regs[2].method = query.method

(* the static child with lit's first byte was searched before the Param    *)
(* child of the same node, and pattern a's handler came back with x = lit  *)
C7_Outcome(a, b, preLen, litLen) ==
  /\ result.handler = regs[a].handler
  /\ \E k \in 1..Len(result.values) :
       result.values[k] =
         Binding(SubSeq(regs[a].pattern, preLen + 2, C7_NameStop(a, preLen) - 1),
                 C7_Lit(b, preLen, litLen))
  /\ \E i, j \in 1..Len(result.visited) :
       /\ i < j
       /\ tree[result.visited[i]].kind = SKIND
       /\ tree[result.visited[i]].label = C7_Lit(b, preLen, litLen)[1]
       /\ tree[result.visited[j]].kind = PKIND
       /\ \E parent \in 1..Len(tree) :
            IsChildOf(result.visited[i], parent) /\ IsChildOf(result.visited[j], parent)

C7_Lengths == 0..Len(query.path)

(* C7, as claimed. Backtracking from a static dead end. *)
C7_BacktrackAsClaimed ==
  C7_Router =>
    \A a, b \in 1..2 : \A preLen, litLen \in C7_Lengths :
      C7_Case(a, b, preLen, litLen) => C7_Outcome(a, b, preLen, litLen)

(* C7, amended. Backtracking from a static dead end, when the second       *)
(* pattern does not itself match the looked-up path.                       *)
C7_Backtrack ==
  C7_Router =>
    \A a, b \in 1..2 : \A preLen, litLen \in C7_Lengths :
      C7_Case(a, b, preLen, litLen) /\ ~Match(regs[b].pattern, query.path).ok
        => C7_Outcome(a, b, preLen, litLen)

C7_Witness ==
  /\ C7_Router
  /\ \E a, b \in 1..2 : \E preLen, litLen \in C7_Lengths :
       /\ C7_Case(a, b, preLen, litLen)
       /\ ~Match(regs[b].pattern, query.path).ok
       /\ C7_Suf1(a, preLen) # <<>>
       /\ C7_Outcome(a, b, preLen, litLen)

----------------------------------------------------------------------------
(* C8. Totality of find: on every trie and every method and path, the      *)
(* empty string, a string without a leading '/' and the string '*'         *)
(* included, find returns a result after at most one call per node: a      *)
(* handler or none, and a list of bindings.                                *)
C8_FindTotal ==
  Found =>
    /\ result.handler \in 0..Len(regs)
    /\ \A k \in 1..Len(result.values) : result.values[k].tag \in {"raw", "pair", "hole"}
    /\ Len(result.visited) \in 1..Len(tree)
    /\ \A i, j \in 1..Len(result.visited) :
         result.visited[i] = result.visited[j] => i = j

(* find has returned for a path that is no URL path, on a trie with routes *)
C8_Witness ==
  /\ Found
  /\ Len(regs) = MaxAdds
  /\ query.path \in {<<>>, <<"a", "b">>, <<"*">>}
  /\ Len(result.visited) > 1

NoSharedPrefix(pattern, path) ==
  /\ commonLength(pattern, path) <= 1
  /\ Len(pattern) > 1 => pattern[2] \notin {COLON, STAR}

C10_NoMatchUnregistered ==
  Found /\ (\A i \in 1..Len(regs) : NoSharedPrefix(regs[i].pattern, query.path)) =>
    /\ result.handler = undefined
    /\ result.values = <<>>

----------------------------------------------------------------------------
(* an add call has just been made: the registration it was made with *)
Adding == Len(regs') = Len(regs) + 1

Added == regs'[Len(regs')]

Malformed(pattern) ==
  \/ pattern = <<>>
  \/ pattern[1] # SLASH
  \/ \E i \in 1..(Len(pattern) - 1) : pattern[i] = COLON /\ pattern[i + 1] = SLASH

(* C11. Malformed patterns are rejected at registration: an add with an    *)
(* empty pattern, a pattern not starting with '/', or a ':' immediately    *)
(* followed by '/' leaves the trie exactly as it was before the call.      *)
C11_MalformedRejected ==
  [][Adding /\ Malformed(Added.pattern) => tree' = tree]_vars

(* the pattern with every parameter name removed *)
RECURSIVE Shape(_)
Shape(pattern) ==
  IF pattern = <<>> THEN <<>>
  ELSE IF Head(pattern) = COLON
       THEN <<COLON>> \o Shape(SubSeq(pattern, TokenEnd(pattern, 1), Len(pattern)))
       ELSE <<Head(pattern)>> \o Shape(Tail(pattern))

(* an earlier registration for the same method has the same shape and      *)
(* other parameter names                                                   *)
Conflicting(reg) ==
  /\ ~Malformed(reg.pattern)
  /\ \E i \in 1..Len(regs) :
       /\ regs[i].method = reg.method
       /\ ~Malformed(regs[i].pattern)
       /\ Shape(regs[i].pattern) = Shape(reg.pattern)
       /\ regs[i].pattern # reg.pattern

(* C12. Conflicting parameter names are rejected: an add for a method and  *)
(* a trie position already registered for that method under other          *)
(* parameter names fails, and the stored handler and name list stay as     *)
(* they were.                                                              *)
C12_ConflictRejected ==
  [][Adding /\ Conflicting(Added) => tree' = tree]_vars

(* C18. Root invariant: after any sequence of add calls whose patterns all *)
(* begin with '/', the root node's prefix is exactly '/'.                  *)
C18_RootPrefix ==
  (\A i \in 1..Len(regs) : regs[i].pattern # <<>> /\ regs[i].pattern[1] = SLASH)
    => tree[1].prefix = <<SLASH>>

(* two patterns beginning with '/' were added, one of them with an empty   *)
(* parameter name, and the root has children                               *)
C18_Witness ==
  /\ Len(regs) = MaxAdds
  /\ \A i \in 1..Len(regs) : regs[i].pattern # <<>> /\ regs[i].pattern[1] = SLASH
  /\ \E i \in 1..Len(regs) : Malformed(regs[i].pattern)
  /\ Len(tree[1].children) > 1

----------------------------------------------------------------------------
(* the handler and the bindings of two results are the same *)
SameResult(r1, r2) == r1.handler = r2.handler /\ r1.values = r2.values

(* the names of the dynamic tokens of a pattern, from left to right *)
RECURSIVE TokenNames(_)
TokenNames(pattern) ==
  IF pattern = <<>> THEN <<>>
  ELSE IF Head(pattern) = COLON
       THEN <<SubSeq(pattern, 2, TokenEnd(pattern, 2) - 1)>>
            \o TokenNames(SubSeq(pattern, TokenEnd(pattern, 2), Len(pattern)))
  ELSE IF Head(pattern) = STAR THEN <<<<STAR>>>> \o TokenNames(Tail(pattern))
  ELSE TokenNames(Tail(pattern))

(* C13. Per-method independence at one node: a find for m returns a        *)
(* handler registered for m with the parameter names of that registration, *)
(* and an add for a method m1 changes the result of no find for another    *)
(* method m2.                                                              *)
C13_MethodIndependence ==
  [][/\ pc = "idle" /\ pc' = "found" /\ result'.handler # undefined =>
          /\ regs[result'.handler].method = query'.method
          /\ [k \in 1..Len(result'.values) |-> result'.values[k].name]
               = TokenNames(regs[result'.handler].pattern)
     /\ Adding =>
          \A m2 \in Methods \ {Added.method} : \A path \in Paths :
            SameResult(find(tree, m2, path), find(tree', m2, path))]_vars

----------------------------------------------------------------------------
(* C19. Unambiguous children: after any sequence of add calls with         *)
(* well-formed patterns, no node has two Static children whose prefixes    *)
(* start with the same character, more than one Param child or more than   *)
(* one Wildcard child.                                                     *)
C19_UnambiguousChildren ==
  \A id \in 1..Len(tree) :
    \A i, j \in 1..Len(tree[id].children) :
      LET c == tree[tree[id].children[i]]
          d == tree[tree[id].children[j]]
      IN  i # j =>
            /\ tree[id].children[i] # tree[id].children[j]
            /\ c.kind = SKIND /\ d.kind = SKIND => c.prefix[1] # d.prefix[1]
            /\ ~(c.kind = PKIND /\ d.kind = PKIND)
            /\ ~(c.kind = AKIND /\ d.kind = AKIND)

(* a node has two Static children, and a node has a Static and a dynamic   *)
(* child                                                                   *)
C19_Witness ==
  /\ Len(regs) = MaxAdds
  /\ \E id \in 1..Len(tree) : \E i, j \in 1..Len(tree[id].children) :
       /\ i # j
       /\ tree[tree[id].children[i]].kind = SKIND
       /\ tree[tree[id].children[j]].kind = SKIND

----------------------------------------------------------------------------
(* the add has split a node: a node of the trie has a shorter prefix *)
Splits == \E id \in 1..Len(tree) : Len(tree'[id].prefix) < Len(tree[id].prefix)

(* C20. Splitting preserves earlier routes: a lookup that resolved to an   *)
(* earlier registration whose pattern matches the path resolves to the     *)
(* same handler and bindings after an add that splits a node, unless the   *)
(* add registers that method and pattern again or the added pattern is for *)
(* that method and matches the path.                                       *)
C20_SplitPreserves ==
  [][Adding /\ Splits =>
       \A m \in Methods : \A path \in Paths :
         /\ find(tree, m, path).handler # undefined
         /\ Match(regs[find(tree, m, path).handler].pattern, path).ok
         /\ ~(m = Added.method /\ regs[find(tree, m, path).handler].pattern = Added.pattern)
         /\ ~(m = Added.method /\ Match(Added.pattern, path).ok)
         => SameResult(find(tree, m, path), find(tree', m, path))]_vars

----------------------------------------------------------------------------
----------------------------------------------------------------------------
(* a socket with a connection that has not been closed *)
Live(s) == sockets[s] \in {"open", "ended"}

(* C15. Graceful stop, close announcement: a request event that arrives    *)
(* after the stopping function was called, with the response headers not   *)
(* yet sent, gets 'connection: close' and its socket is recorded as told   *)
(* to close; a request that arrives before gets no such header.            *)
C15_CloseAnnounced ==
  [][requested' # NoRequest /\ pending' # pending =>
       LET s == requested'.socket
       IN  /\ terminating /\ ~requested'.headersSent =>
                /\ LastOf(pending'[s])
                /\ s \in hasRepliedClosedConnectionForSocket'
           /\ ~terminating =>
                /\ ~LastOf(pending'[s])
                /\ hasRepliedClosedConnectionForSocket' = hasRepliedClosedConnectionForSocket]_vars

(* a request arrived after the stop and got the header, on a socket that   *)
(* also holds a response without it                                        *)
C15_Witness ==
  /\ terminating
  /\ requested # NoRequest
  /\ ~requested.headersSent
  /\ pending[requested.socket] = <<FALSE, TRUE>>

(* C16. Graceful stop, close after last request: once termination has      *)
(* started, a socket told to close is ended when the finish of a response  *)
(* brings its number of unfinished responses to zero, and no finish ends a *)
(* socket that still has unfinished responses.                             *)
C16_CloseAfterLast ==
  [][\A s \in Sockets :
       Len(pending'[s]) < Len(pending[s]) =>
         /\ terminating /\ s \in hasRepliedClosedConnectionForSocket
              /\ Live(s) /\ pending'[s] = <<>>
            => s \in endCalls' /\ sockets'[s] = "ended"
         /\ pending'[s] # <<>> => endCalls' = {}]_vars

(* the last finish on a socket told to close has ended it, before any      *)
(* timer fired                                                             *)
C16_Witness ==
  /\ terminating
  /\ timers.tryEndIdle = "armed"
  /\ \E s \in Sockets : endCalls = {s} /\ sockets[s] = "ended" /\ pending[s] = <<>>

(* C17. Graceful stop, two timeouts: the idle timeout ends exactly the      *)
(* tracked sockets without unfinished responses, told to close or not; the *)
(* forced timeout ends every socket still tracked; and every connection    *)
(* tracked when the stopping function was called is eventually ended.      *)
C17_TwoTimeouts ==
  /\ [][/\ timers.tryEndIdle = "armed" /\ timers'.tryEndIdle = "fired" =>
             endCalls' = {s \in Sockets : Live(s) /\ pending[s] = <<>>}
        /\ timers.forcedStop = "armed" /\ timers'.forcedStop = "fired" =>
             /\ \A s \in Sockets : Live(s) => s \in endCalls'
             /\ \A s \in Sockets : sockets'[s] # "open"]_vars
  /\ \A s \in Sockets : (s \in trackedAtStop) ~> (sockets[s] \in {"ended", "closed"})

(* the forced timeout has ended a socket with an unfinished response, and  *)
(* the idle timeout had ended another that was never told to close         *)
C17_Witness ==
  /\ timers.forcedStop = "fired"
  /\ \E s, t \in Sockets :
       /\ s \in endCalls /\ pending[s] # <<>>
       /\ t # s /\ t \in trackedAtStop /\ t \notin hasRepliedClosedConnectionForSocket
       /\ sockets[t] = "ended"

----------------------------------------------------------------------------
(* a node holds a defined handler for some method *)
HasHandler(id) == \E m \in Methods : tree[id].map[m].handler # undefined

(* C21. Maximal compression: after every completed add with well-formed    *)
(* patterns no node other than the root is Static, without a defined       *)
(* handler for any method, and with exactly one child that is Static too.  *)
(* The router is between two calls when pc is "idle".                      *)
C21_Compressed ==
  pc = "idle" =>
  \A id \in 2..Len(tree) :
    ~ /\ tree[id].kind = SKIND
      /\ ~HasHandler(id)
      /\ Len(tree[id].children) = 1
      /\ tree[tree[id].children[1]].kind = SKIND

(* a split has left a Static node without a handler, with two children,    *)
(* and another Static node without a handler has one dynamic child         *)
C21_Witness ==
  /\ Len(regs) = MaxAdds
  /\ \E id \in 2..Len(tree) :
       /\ tree[id].kind = SKIND /\ ~HasHandler(id) /\ Len(tree[id].children) = 2
  /\ \E id \in 2..Len(tree) :
       /\ tree[id].kind = SKIND /\ ~HasHandler(id) /\ Len(tree[id].children) = 1

----------------------------------------------------------------------------
(* the number of Param and Wildcard nodes from the root to a node *)
Parent(id) == CHOOSE p \in 1..Len(tree) : IsChildOf(id, p)

RECURSIVE DynamicNodes(_)
DynamicNodes(id) ==
  (IF tree[id].kind \in {PKIND, AKIND} THEN 1 ELSE 0)
  + (IF id = 1 THEN 0 ELSE DynamicNodes(Parent(id)))

(* C24. Name-list invariant: where a node stores a defined handler for a   *)
(* method, the stored list of names has one entry for each Param or        *)
(* Wildcard node from the root to that node, and they are the names of the *)
(* tokens of the registered pattern from left to right.                    *)
C24_NameList ==
  pc = "idle" =>
  \A id \in 1..Len(tree) : \A m \in Methods :
    tree[id].map[m].handler # undefined =>
      /\ Len(tree[id].map[m].names) = DynamicNodes(id)
      /\ tree[id].map[m].names = TokenNames(regs[tree[id].map[m].handler].pattern)

(* a handler is stored with two names, below a Param node that holds the   *)
(* handler of another pattern with one name                                *)
C24_Witness ==
  \E id, jd \in 1..Len(tree) : \E m \in Methods :
    /\ tree[id].map[m].handler # undefined
    /\ Len(tree[id].map[m].names) = 2
    /\ tree[jd].map[m].handler # undefined
    /\ Len(tree[jd].map[m].names) = 1

----------------------------------------------------------------------------
(* registration i is the current one of its method and pattern *)
Current(i) == LastHandler(regs[i].method, regs[i].pattern) = regs[i].handler

(* registrations i and j are for the method looked up, j ends in its       *)
(* Wildcard token, and i agrees with j up to that token and goes through a *)
(* Param token there: their Param and Wildcard nodes are children of one   *)
(* node                                                                    *)
ParamAndWildcard(i, j) ==
  LET k == Len(regs[j].pattern) - 1
  IN  /\ regs[i].method = query.method /\ regs[j].method = query.method
      /\ k >= 0 /\ k < Len(regs[i].pattern)
      /\ regs[j].pattern[k + 1] = STAR
      /\ regs[i].pattern[k + 1] = COLON
      /\ SubSeq(regs[i].pattern, 1, k) = SubSeq(regs[j].pattern, 1, k)
      /\ Current(i) /\ Current(j)

Terminal == LastOf(result.visited)

VisitedBefore(c, d) ==
  \E a, b \in 1..Len(result.visited) :
    a < b /\ result.visited[a] = c /\ result.visited[b] = d

OtherMethodStatic ==
  /\ IsStatic(query.path)
  /\ ~Registered(query.method, query.path)
  /\ \E m \in Methods : m # query.method /\ Registered(m, query.path)

DynamicMatch(i) ==
  /\ regs[i].method = query.method
  /\ Current(i)
  /\ ~IsStatic(regs[i].pattern)
  /\ MatchStrict(regs[i].pattern, query.path).ok

(* C23. Method-aware backtracking: when the path looked up is a static     *)
(* pattern registered for another method only and a dynamic pattern of the *)
(* method looked up matches it, find leaves the static branch and returns  *)
(* a handler registered for the method looked up whose pattern matches the *)
(* path, with that pattern's bindings.                                     *)
C23_MethodBacktracking ==
  Found /\ OtherMethodStatic /\ (\E i \in 1..Len(regs) : DynamicMatch(i)) =>
    /\ result.handler # undefined
    /\ regs[result.handler].method = query.method
    /\ Match(regs[result.handler].pattern, query.path).ok
    /\ result.values = Match(regs[result.handler].pattern, query.path).bindings
    /\ Backtracked

(* the static terminal without a handler for the method was reached and    *)
(* the handler of a Param pattern was returned                             *)
C23_Witness ==
  /\ Found /\ OtherMethodStatic
  /\ \E i \in 1..Len(regs) :
       /\ DynamicMatch(i)
       /\ result.handler = regs[i].handler
       /\ Len(result.values) = 1
       /\ result.values[1].tag = "pair"
       /\ result.values[1].value = SubSeq(query.path, 2, Len(query.path))
  /\ \E k \in 1..Len(result.visited) :
       /\ tree[result.visited[k]].kind = SKIND
       /\ tree[result.visited[k]].map["POST"].handler # undefined
       /\ tree[result.visited[k]].map["GET"].handler = undefined

----------------------------------------------------------------------------
(* registration j repeats the method and the pattern of the earlier i *)
Repeats(i, j) ==
  /\ i < j
  /\ regs[i].method = regs[j].method
  /\ regs[i].pattern = regs[j].pattern

(* the nodes that store, for the method of registration i, the handler of  *)
(* a registration of the same method and pattern                           *)
Terminals(i) ==
  {id \in 1..Len(tree) :
     \E k \in 1..Len(regs) :
       /\ regs[k].method = regs[i].method
       /\ regs[k].pattern = regs[i].pattern
       /\ tree[id].map[regs[i].method].handler = regs[k].handler}

(* no other pattern registered for the method of i matches the path *)
OnlyMatch(i) ==
  \A k \in 1..Len(regs) :
    regs[k].method = regs[i].method /\ regs[k].pattern # regs[i].pattern =>
      ~Match(regs[k].pattern, query.path).ok

(* C26. Last registration wins: after add was called again with the same   *)
(* method and pattern, one node holds the entry of that method and pattern *)
(* and it holds the handler and names of the last call; find never returns *)
(* the earlier handler, and where the pattern is the only one of the       *)
(* method that matches the path, find returns the last handler.            *)
C26_LastWins ==
  \A i, j \in 1..Len(regs) :
    Repeats(i, j) /\ Current(j) =>
      /\ Cardinality(Terminals(j)) = 1
      /\ \A id \in Terminals(j) :
           /\ tree[id].map[regs[j].method].handler = regs[j].handler
           /\ tree[id].map[regs[j].method].names = TokenNames(regs[j].pattern)
      /\ Found /\ query.method = regs[j].method =>
           /\ result.handler # regs[i].handler
           /\ MatchStrict(regs[j].pattern, query.path).ok /\ OnlyMatch(j) =>
                /\ result.handler = regs[j].handler
                /\ result.values = MatchStrict(regs[j].pattern, query.path).bindings

(* a pattern with a parameter was registered twice for one method and a    *)
(* path it matches was looked up                                           *)
C26_Witness ==
  /\ Found
  /\ \E i, j \in 1..Len(regs) :
       /\ Repeats(i, j)
       /\ query.method = regs[j].method
       /\ ~IsStatic(regs[j].pattern)
       /\ MatchStrict(regs[j].pattern, query.path).ok
       /\ result.handler = regs[j].handler
       /\ result.handler # regs[i].handler

----------------------------------------------------------------------------
(* the orders in which the registrations made so far can be replayed *)
Orders ==
  {f \in [1..Len(regs) -> 1..Len(regs)] :
     \A a, b \in 1..Len(regs) : a # b => f[a] # f[b]}

(* the router after the add calls of regs were made in the order f, from   *)
(* the k-th on                                                             *)
RECURSIVE Replay(_, _, _)
Replay(f, k, nodes) ==
  IF k > Len(regs) THEN nodes
  ELSE Replay(f, k + 1,
              add(nodes, regs[f[k]].method, regs[f[k]].pattern, regs[f[k]].handler))

DifferentShapes ==
  \A i, j \in 1..Len(regs) :
    i # j /\ regs[i].method = regs[j].method =>
      Shape(regs[i].pattern) # Shape(regs[j].pattern)

(* C25. Registration order does not matter: when the registrations made    *)
(* have pairwise different (method, pattern shape), the router built by    *)
(* the same add calls in any other order answers the lookup with the same  *)
(* handler and the same bindings.                                          *)
C25_OrderIndependent ==
  Found /\ DifferentShapes =>
    \A f \in Orders :
      LET other == find(Replay(f, 1, NewRouter), query.method, query.path)
      IN  /\ other.handler = result.handler
          /\ other.values = result.values

(* two patterns of the method looked up were registered, the other order   *)
(* builds a different tree, and the lookup returned a handler              *)
C25_Witness ==
  /\ Found /\ DifferentShapes
  /\ Len(regs) = 2
  /\ regs[1].method = query.method /\ regs[2].method = query.method
  /\ \E f \in Orders : Replay(f, 1, NewRouter) # tree
  /\ result.handler # undefined
  /\ result.values # <<>>

----------------------------------------------------------------------------
(* C27. A named parameter never binds to the empty string: in every        *)
(* successful find result the value of each binding of a ':name' token is  *)
(* a non-empty string.                                                     *)
C27_ParamNonEmpty ==
  Found /\ result.handler # undefined =>
    \A k \in 1..Len(result.values) :
      result.values[k].tag = "pair" /\ result.values[k].name # <<STAR>> =>
        result.values[k].value # <<>>

----------------------------------------------------------------------------
(* the path looked up is the part of registration i, made for the method   *)
(* looked up, that precedes its trailing '*'                               *)
BeforeWildcard(i) ==
  /\ regs[i].method = query.method
  /\ regs[i].pattern # <<>>
  /\ LastOf(regs[i].pattern) = STAR
  /\ query.path = SubSeq(regs[i].pattern, 1, Len(regs[i].pattern) - 1)

WildcardValuesNonEmpty ==
  result.handler # undefined =>
    \A k \in 1..Len(result.values) :
      result.values[k].tag = "pair" /\ result.values[k].name = <<STAR>> =>
        result.values[k].value # <<>>

(* C28, as claimed. A wildcard never binds to the empty string: in every   *)
(* successful find result a '*' binding has a non-empty value, and a       *)
(* lookup of exactly the part that precedes the '*' returns no match       *)
(* unless that path is registered on its own.                              *)
C28_WildcardNonEmptyAsClaimed ==
  Found =>
    /\ WildcardValuesNonEmpty
    /\ \A i \in 1..Len(regs) :
         BeforeWildcard(i) /\ ~Registered(query.method, query.path) =>
           result.handler = undefined

(* C28, amended. A '*' binding of a successful find result has a non-empty *)
(* value, and a lookup of exactly the part that precedes the '*' never     *)
(* returns the handler of that pattern: it returns no match, or a handler  *)
(* registered for the method with a different pattern.                     *)
C28_WildcardNonEmpty ==
  Found =>
    /\ WildcardValuesNonEmpty
    /\ \A i \in 1..Len(regs) :
         BeforeWildcard(i) =>
           /\ result.handler # regs[i].handler
           /\ result.handler # undefined =>
                /\ regs[result.handler].method = query.method
                /\ regs[result.handler].pattern # regs[i].pattern

(* the part before the '*' of a pattern with a static part was looked up   *)
(* and nothing was returned                                                *)
C28_Witness ==
  /\ Found
  /\ \E i \in 1..Len(regs) :
       /\ BeforeWildcard(i)
       /\ Len(regs[i].pattern) > 2
       /\ Current(i)
  /\ result.handler = undefined

----------------------------------------------------------------------------
(* C29. No captures leak out of failed branches: whenever find returns an  *)
(* absent handler the returned list of bindings is empty, and whenever it  *)
(* returns a handler the list holds only (name, value) pairs, never a raw  *)
(* value written while a Param or Wildcard branch was explored.            *)
C29_NoLeak ==
  Found =>
    /\ result.handler = undefined => result.values = <<>>
    /\ result.handler # undefined =>
         \A k \in 1..Len(result.values) : result.values[k].tag = "pair"

----------------------------------------------------------------------------
(* C30. Request-count bookkeeping: under every interleaving of connection, *)
(* request, response-finish and socket-close events, the Map of pending    *)
(* requests has only sockets that are connected and not closed as keys,    *)
(* and the count stored for each is a non-negative integer, the number of  *)
(* requests received on the socket whose response has not finished.        *)
C30_Bookkeeping ==
  \A s \in Sockets :
    reqCountPerSocket[s] # Absent =>
      /\ sockets[s] \in {"open", "ended"}
      /\ reqCountPerSocket[s] >= 0
      /\ reqCountPerSocket[s] = Len(pending[s])

====
